---- MODULE Spec2Model ----
(***************************************************************************)
(* matrix-stats (main.py): resolution of a federation domain to its        *)
(* homeserver (well-known, then SRV, then domain:8448), the version fetch, *)
(* and the concurrent fan-out of one probe per domain with the fold of the *)
(* results into the version table.                                         *)
(*                                                                         *)
(* Python strings are sequences of one-character strings.  Python's None   *)
(* is the record None; a result string s is the record PyStr(s); the       *)
(* headers dict {'Host': d} is the record [Host |-> d].                     *)
(***************************************************************************)
EXTENDS Integers, Sequences, FiniteSets, TLC

VARIABLES pc, destinations, net, debug, tpc, homeserver, headers, method,
          result, exc, requests, printed, versions, sinks

vars == <<pc, destinations, net, debug, tpc, homeserver, headers, method,
          result, exc, requests, printed, versions, sinks>>

(***************************************************************************)
(* Bounds                                                                  *)
(***************************************************************************)
MaxDomains == 3

\* the longest list of destinations of the runs checked for termination
MaxFairDomains == 2

(***************************************************************************)
(* Python values                                                           *)
(***************************************************************************)
None == [isNone |-> TRUE]

PyStr(s) == [str |-> s]

NoExc == ""

Whitespace == {" ", "\t", "\n"}

Min(a, b) == IF a <= b THEN a ELSE b

Contains(s, c) == \E k \in 1..Len(s) : s[k] = c

Digit(d) == CASE d = 0 -> "0" [] d = 1 -> "1" [] d = 2 -> "2" [] d = 3 -> "3"
              [] d = 4 -> "4" [] d = 5 -> "5" [] d = 6 -> "6" [] d = 7 -> "7"
              [] d = 8 -> "8" [] d = 9 -> "9"

RECURSIVE IntToStr(_)
IntToStr(n) == IF n < 10 THEN <<Digit(n)>>
               ELSE IntToStr(n \div 10) \o <<Digit(n % 10)>>

\* str.split()[0]: the first maximal run of non-whitespace characters;
\* <<>> stands for the IndexError of an empty split() list.
RECURSIVE SkipWhitespace(_)
SkipWhitespace(s) == IF s = <<>> THEN <<>>
                     ELSE IF Head(s) \in Whitespace THEN SkipWhitespace(Tail(s))
                     ELSE s

RECURSIVE TakeToken(_)
TakeToken(s) == IF s = <<>> THEN <<>>
                ELSE IF Head(s) \in Whitespace THEN <<>>
                ELSE <<Head(s)>> \o TakeToken(Tail(s))

\* variant: the version is not split
SplitFirst_whole(s) == s

SplitFirst(s) == TakeToken(SkipWhitespace(s))

(***************************************************************************)
(* Domains                                                                 *)
(***************************************************************************)
test_destinations ==
    << <<"m", "a", "t", "r", "i", "x", ".", "o", "r", "g">>,
       <<"s", "y", "n", "o", "d", ".", "i", "m">>,
       <<"m", "a", "t", "r", "i", "x", ".", "t", "u", "m", ".", "d", "e">>,
       <<"d", "i", "g", "i", "t", "a", "l", "e", "-", "g", "e", "s", "e", "l",
         "l", "s", "c", "h", "a", "f", "t", ".", "c", "h">>,
       <<"l", "i", "b", "r", "e", "m", ".", "o", "n", "e">> >>

Domains == {test_destinations[k] : k \in 1..Len(test_destinations)}

(***************************************************************************)
(* Responses of the network, as the code sees them                         *)
(***************************************************************************)
\* GET https://{domain}/.well-known/matrix/server
\*   status: "ok" or the exception fetch raises; body: the JSON top-level
\*   type; has: the body has key 'm.server'; type/value: that value.
WK(status, body, has, type, value) ==
    [status |-> status, body |-> body, has |-> has, type |-> type, value |-> value]

WKFailure(status) == WK(status, "object", FALSE, "null", <<>>)

WellKnownResponses ==
    { WK("ok", "object", TRUE, "str", <<"s", "y", "n", "o", "d", ".", "i", "m">>),
      WK("ok", "object", TRUE, "str",
         <<"s", "y", "n", "o", "d", ".", "i", "m", ":", "4", "4", "3">>),
      WK("ok", "object", TRUE, "str", <<>>),
      WK("ok", "object", TRUE, "num", <<"8">>),
      WK("ok", "object", TRUE, "null", <<>>),
      WK("ok", "object", FALSE, "null", <<>>),
      WK("ok", "list", FALSE, "null", <<>>),
      WKFailure("ClientConnectorError"),
      WKFailure("TimeoutError"),
      WKFailure("JSONDecodeError") }

\* SRV query for _matrix._tcp.{domain}
SRVRecord(host, port) == [host |-> host, port |-> port]

SRV(status, records) == [status |-> status, records |-> records]

SRVResponses ==
    { SRV("ok", << SRVRecord(<<"m", "x">>, 8448) >>),
      SRV("ok", << SRVRecord(<<"f", "e", "d">>, 443), SRVRecord(<<"m", "x">>, 8448) >>),
      SRV("ok", <<>>),
      SRV("DNSError", <<>>),
      SRV("TimeoutError", <<>>) }

\* GET https://{homeserver}/_matrix/federation/v1/version
\*   server: "object", "missing" or "str" (body['server']); name/version:
\*   the fields of the server object, None when the key is missing, the
\*   record [num |-> n] for a JSON number.
Ver(status, body, server, name, version) ==
    [status |-> status, body |-> body, server |-> server, name |-> name,
     version |-> version]

VerFailure(status) == Ver(status, "object", "missing", None, None)

Synapse == <<"S", "y", "n", "a", "p", "s", "e">>

Dendrite == <<"D", "e", "n", "d", "r", "i", "t", "e">>

RawVersions ==
    { <<"1", ".", "6", ".", "1", " ", "(", "b", ")">>,
      <<"0", ".", "5", ".", "0">>,
      <<" ", "1", ".", "6", ".", "1">>,
      <<" ", "\t">>,
      <<>> }

VersionResponses ==
    { Ver("ok", "object", "object", PyStr(n), PyStr(v)) :
          n \in {Synapse, Dendrite}, v \in RawVersions }
    \cup
    { Ver("ok", "object", "object", None, PyStr(<<"1">>)),
      Ver("ok", "object", "object", PyStr(Synapse), None),
      Ver("ok", "object", "object", PyStr(Synapse), [num |-> 1]),
      Ver("ok", "object", "str", None, None),
      Ver("ok", "object", "missing", None, None),
      Ver("ok", "list", "missing", None, None),
      VerFailure("ClientConnectorError"),
      VerFailure("TimeoutError"),
      VerFailure("JSONDecodeError") }

Stub(wk, srv, ver) == [wk |-> wk, srv |-> srv, ver |-> ver]

\* every combination of the three responses, for a run over one domain
AllStubs == { Stub(w, s, v) : w \in WellKnownResponses, s \in SRVResponses,
                              v \in VersionResponses }

\* representative combinations, for a run over several domains
SomeStubs ==
    { Stub(WK("ok", "object", TRUE, "str", <<"s", "y", "n", "o", "d", ".", "i", "m">>),
           SRV("ok", << SRVRecord(<<"m", "x">>, 8448) >>),
           Ver("ok", "object", "object", PyStr(Synapse),
               PyStr(<<"1", ".", "6", ".", "1", " ", "(", "b", ")">>))),
      Stub(WKFailure("TimeoutError"),
           SRV("ok", << SRVRecord(<<"m", "x">>, 8448) >>),
           Ver("ok", "object", "object", PyStr(Dendrite),
               PyStr(<<"0", ".", "5", ".", "0">>))),
      Stub(WK("ok", "object", FALSE, "null", <<>>),
           SRV("DNSError", <<>>),
           Ver("ok", "object", "object", PyStr(Synapse),
               PyStr(<<"1", ".", "6", ".", "1", " ", "(", "b", ")">>))),
      Stub(WKFailure("ClientConnectorError"),
           SRV("ok", <<>>),
           VerFailure("TimeoutError")) }

(***************************************************************************)
(* fetch and the three tiers of homeserver_for_domain                      *)
(***************************************************************************)
\* the classes `except Exception` catches, among those the code can meet
Exception == {"ClientConnectorError", "TimeoutError", "JSONDecodeError",
              "DNSError", "TypeError", "KeyError", "IndexError",
              "AttributeError"}

\* session.get(...) / response.json(): the exception raised, NoExc if none
fetch(res) == IF res.status = "ok" THEN NoExc ELSE res.status

DefaultPort == <<":", "8", "4", "4", "8">>

\* the exception raised inside the first try block, NoExc if none
well_known_raises(res) ==
    IF fetch(res) # NoExc THEN fetch(res)
    ELSE IF res.body # "object" THEN "TypeError"
    ELSE IF ~res.has THEN "KeyError"
    ELSE IF res.type # "str" THEN "TypeError"
    ELSE NoExc

\* variant: the default port is appended without looking for ':'
well_known_homeserver_always_port(res) == res.value \o DefaultPort

well_known_homeserver(res) ==
    IF ~Contains(res.value, ":") THEN res.value \o DefaultPort ELSE res.value

except_well_known(e) == e \in Exception

\* resolver.query(...) and res[0]: the exception raised, NoExc if none
srv_raises(res) ==
    IF res.status # "ok" THEN res.status
    ELSE IF Len(res.records) = 0 THEN "IndexError"
    ELSE NoExc

\* variant: the last record is used
srv_homeserver_last(res) ==
    res.records[Len(res.records)].host \o <<":">>
        \o IntToStr(res.records[Len(res.records)].port)

srv_homeserver(res) ==
    res.records[1].host \o <<":">> \o IntToStr(res.records[1].port)

srv_headers(domain) == [Host |-> domain]

\* variant: only aiodns' own error is caught
except_SRV_DNSError(e) == e = "DNSError"

except_SRV(e) == e \in Exception

\* variant: the port is left out
fallback_homeserver_bare(domain) == domain

fallback_homeserver(domain) == domain \o DefaultPort

(***************************************************************************)
(* version_for_homeserver                                                  *)
(***************************************************************************)
version_raises(res) ==
    IF fetch(res) # NoExc THEN fetch(res)
    ELSE IF res.body # "object" THEN "TypeError"
    ELSE IF res.server = "missing" THEN "KeyError"
    ELSE IF res.server # "object" THEN "TypeError"
    ELSE IF res.name = None THEN "KeyError"
    ELSE IF res.version = None THEN "KeyError"
    ELSE IF "str" \notin DOMAIN res.version THEN "AttributeError"
    ELSE IF SplitFirst(res.version.str) = <<>> THEN "IndexError"
    ELSE NoExc

version_string(res) == res.name.str \o <<"/">> \o SplitFirst(res.version.str)

\* variant: only the errors of the HTTP client are caught
except_version_ClientError(e) == e \in {"ClientConnectorError", "TimeoutError"}

except_version(e) == e \in Exception

(***************************************************************************)
(* Counter(...).most_common() and the versions dict                        *)
(* A Counter or dict is the sequence of its <<key, count>> items in        *)
(* insertion order.                                                        *)
(***************************************************************************)
Keys(items) == {items[k][1] : k \in 1..Len(items)}

CounterAdd(items, key) ==
    IF key \in Keys(items)
    THEN [k \in 1..Len(items) |->
             IF items[k][1] = key THEN <<key, items[k][2] + 1>> ELSE items[k]]
    ELSE Append(items, <<key, 1>>)

RECURSIVE CounterFrom(_, _)
CounterFrom(items, elems) ==
    IF elems = <<>> THEN items
    ELSE CounterFrom(CounterAdd(items, Head(elems)), Tail(elems))

Counter(elems) == CounterFrom(<<>>, elems)

\* variant: an item goes before the items of its own count
RECURSIVE InsertByCount_before_ties(_, _)
InsertByCount_before_ties(sorted, item) ==
    IF sorted = <<>> THEN <<item>>
    ELSE IF Head(sorted)[2] > item[2]
         THEN <<Head(sorted)>> \o InsertByCount_before_ties(Tail(sorted), item)
         ELSE <<item>> \o sorted

\* sorted(..., key=count, reverse=True) is stable: an item goes after every
\* item whose count is at least its own
RECURSIVE InsertByCount(_, _)
InsertByCount(sorted, item) ==
    IF sorted = <<>> THEN <<item>>
    ELSE IF Head(sorted)[2] >= item[2]
         THEN <<Head(sorted)>> \o InsertByCount(Tail(sorted), item)
         ELSE <<item>> \o sorted

RECURSIVE SortFrom(_, _)
SortFrom(sorted, items) ==
    IF items = <<>> THEN sorted
    ELSE SortFrom(InsertByCount(sorted, Head(items)), Tail(items))

\* variant: the items in insertion order, as Counter.items() gives them
most_common_unsorted(items) == items

most_common(items) == SortFrom(<<>>, items)

\* variant: every item is copied
remove_None_keep(items) == items

\* lines 159-162: copy the items whose key is not None
RECURSIVE remove_None(_)
remove_None(items) ==
    IF items = <<>> THEN <<>>
    ELSE IF Head(items)[1] # None
         THEN <<Head(items)>> \o remove_None(Tail(items))
         ELSE remove_None(Tail(items))

\* format_report's total
RECURSIVE report_total(_)
report_total(items) ==
    IF items = <<>> THEN 0 ELSE Head(items)[2] + report_total(Tail(items))

\* format_report, without its timestamp line: the total and one
\* <<count, version>> line per item
format_report(items) ==
    [total |-> report_total(items),
     lines |-> [k \in 1..Len(items) |-> <<items[k][2], items[k][1].str>>]]

Upper == <<"A", "B", "C", "D", "E", "F", "G", "H", "I", "J", "K", "L", "M",
           "N", "O", "P", "Q", "R", "S", "T", "U", "V", "W", "X", "Y", "Z">>

Lower == <<"a", "b", "c", "d", "e", "f", "g", "h", "i", "j", "k", "l", "m",
           "n", "o", "p", "q", "r", "s", "t", "u", "v", "w", "x", "y", "z">>

lower(c) == IF \E k \in 1..26 : Upper[k] = c
            THEN Lower[CHOOSE k \in 1..26 : Upper[k] = c]
            ELSE c

replace(c, old, new) == IF c = old THEN new ELSE c

\* version.lower().replace('.', '-').replace('/', '.')
graphite_name(s) ==
    [k \in 1..Len(s) |-> replace(replace(lower(s[k]), ".", "-"), "/", ".")]

GraphiteLimit == 15

\* the tuples graphite pickles, without their timestamp
graphite_tuples(items) ==
    [k \in 1..Min(GraphiteLimit, Len(items)) |->
        <<graphite_name(items[k][1].str), items[k][2]>>]

(***************************************************************************)
(* The run: main, and one version_for_domain task per destination          *)
(***************************************************************************)
Tasks == DOMAIN tpc

Request(op, authority, path, hdrs) ==
    [op |-> op, authority |-> authority, path |-> path, headers |-> hdrs]

WellKnownRequest(domain) ==
    Request("GET", domain, "/.well-known/matrix/server", None)

SRVRequest(domain) == Request("SRV", domain, "_matrix._tcp.", None)

VersionRequest(hs, hdrs) ==
    Request("GET", hs, "/_matrix/federation/v1/version", hdrs)

NoError == [type |-> NoExc, in |-> ""]

Blank(n, v) == [i \in 1..n |-> v]

\* what the run has written: the report printed in debug mode, the two
\* report files, the tuples sent to carbon, the message of a failed send
NoOutput == [stdout |-> None, reportfile |-> None, wwwfile |-> None,
             carbon |-> None, message |-> FALSE]

InitRun ==
    /\ pc = "main"
    /\ debug = FALSE
    /\ tpc = <<>>
    /\ homeserver = <<>>
    /\ headers = <<>>
    /\ method = <<>>
    /\ result = <<>>
    /\ exc = <<>>
    /\ requests = <<>>
    /\ printed = <<>>
    /\ versions = <<>>
    /\ sinks = NoOutput

\* one destination, every combination of responses
InitOne ==
    /\ destinations \in {<<d>> : d \in Domains}
    /\ net \in [1..1 -> AllStubs]
    /\ InitRun

\* up to max destinations, representative responses
InitUpTo(max) ==
    /\ \E n \in 0..Min(max, Len(test_destinations)) :
          /\ destinations = SubSeq(test_destinations, 1, n)
          /\ net \in [1..n -> SomeStubs]
    /\ InitRun

InitMany == InitUpTo(MaxDomains)

Init == InitOne \/ InitMany

\* variant: every task is started as soon as its destination is read, and
\* the failure comes after the last one
Dispatch_eager ==
    /\ pc = "main"
    /\ \E d \in BOOLEAN, ok \in BOOLEAN :
          LET n == Len(destinations) IN
          /\ debug' = d
          /\ pc' = IF ok THEN "gather" ELSE "aborted"
          /\ tpc' = Blank(n, IF ok THEN "created" ELSE "well-known")
          /\ homeserver' = Blank(n, <<>>)
          /\ headers' = Blank(n, None)
          /\ method' = Blank(n, "")
          /\ result' = Blank(n, None)
          /\ exc' = Blank(n, NoError)
          /\ requests' = [i \in 1..n |->
                            IF ok THEN <<>>
                            ELSE <<WellKnownRequest(destinations[i])>>]
          /\ printed' = Blank(n, None)
    /\ UNCHANGED <<destinations, net, versions, sinks>>

\* main, lines 138-155: read the arguments, obtain the destinations and
\* create one coroutine per destination; destination_func may raise
Dispatch ==
    /\ pc = "main"
    /\ \E d \in BOOLEAN, ok \in BOOLEAN :
          /\ debug' = d
          /\ IF ok
             THEN LET n == Len(destinations) IN
                  /\ pc' = "gather"
                  /\ tpc' = Blank(n, "created")
                  /\ homeserver' = Blank(n, <<>>)
                  /\ headers' = Blank(n, None)
                  /\ method' = Blank(n, "")
                  /\ result' = Blank(n, None)
                  /\ exc' = Blank(n, NoError)
                  /\ requests' = Blank(n, <<>>)
                  /\ printed' = Blank(n, None)
             ELSE /\ pc' = "aborted"
                  /\ UNCHANGED <<tpc, homeserver, headers, method, result,
                                 exc, requests, printed>>
    /\ UNCHANGED <<destinations, net, versions, sinks>>

\* variant: the SRV query is issued along with the well-known request
Start_both(i) ==
    /\ pc = "gather"
    /\ tpc[i] = "created"
    /\ tpc' = [tpc EXCEPT ![i] = "well-known"]
    /\ headers' = [headers EXCEPT ![i] = None]
    /\ requests' = [requests EXCEPT
                      ![i] = @ \o <<WellKnownRequest(destinations[i]),
                                    SRVRequest(destinations[i])>>]
    /\ UNCHANGED <<pc, destinations, net, debug, homeserver, method, result,
                   exc, printed, versions, sinks>>

\* variant: a task starts only when the tasks before it have returned
Start_sequential(i) ==
    /\ pc = "gather"
    /\ tpc[i] = "created"
    /\ \A j \in 1..(i - 1) : tpc[j] = "done"
    /\ tpc' = [tpc EXCEPT ![i] = "well-known"]
    /\ headers' = [headers EXCEPT ![i] = None]
    /\ requests' = [requests EXCEPT
                      ![i] = Append(@, WellKnownRequest(destinations[i]))]
    /\ UNCHANGED <<pc, destinations, net, debug, homeserver, method, result,
                   exc, printed, versions, sinks>>

\* the task's coroutine runs to its first await: headers = None and the
\* well-known request
Start(i) ==
    /\ pc = "gather"
    /\ tpc[i] = "created"
    /\ tpc' = [tpc EXCEPT ![i] = "well-known"]
    /\ headers' = [headers EXCEPT ![i] = None]
    /\ requests' = [requests EXCEPT
                      ![i] = Append(@, WellKnownRequest(destinations[i]))]
    /\ UNCHANGED <<pc, destinations, net, debug, homeserver, method, result,
                   exc, printed, versions, sinks>>

Raise(i, e, where) ==
    /\ tpc' = [tpc EXCEPT ![i] = "raised"]
    /\ exc' = [exc EXCEPT ![i] = [type |-> e, in |-> where]]
    /\ UNCHANGED <<homeserver, headers, method, requests>>

\* variant: the version request goes to the domain, not to the homeserver
Resolved_to_domain(i, hs, hdrs, m) ==
    /\ tpc' = [tpc EXCEPT ![i] = "version"]
    /\ homeserver' = [homeserver EXCEPT ![i] = hs]
    /\ headers' = [headers EXCEPT ![i] = hdrs]
    /\ method' = [method EXCEPT ![i] = m]
    /\ requests' = [requests EXCEPT
                      ![i] = Append(@, VersionRequest(destinations[i], hdrs))]
    /\ UNCHANGED exc

\* homeserver_for_domain returns and version_for_domain awaits
\* version_for_homeserver, which issues the version request
Resolved(i, hs, hdrs, m) ==
    /\ tpc' = [tpc EXCEPT ![i] = "version"]
    /\ homeserver' = [homeserver EXCEPT ![i] = hs]
    /\ headers' = [headers EXCEPT ![i] = hdrs]
    /\ method' = [method EXCEPT ![i] = m]
    /\ requests' = [requests EXCEPT ![i] = Append(@, VersionRequest(hs, hdrs))]
    /\ UNCHANGED exc

\* the well-known fetch completes (lines 39-47)
WellKnownReturn(i) ==
    /\ pc = "gather"
    /\ tpc[i] = "well-known"
    /\ LET res == net[i].wk
           e == well_known_raises(res)
       IN  IF e = NoExc
           THEN Resolved(i, well_known_homeserver(res), headers[i], "well-known")
           ELSE IF except_well_known(e)
           THEN /\ tpc' = [tpc EXCEPT ![i] = "SRV"]
                /\ requests' = [requests EXCEPT
                                  ![i] = Append(@, SRVRequest(destinations[i]))]
                /\ UNCHANGED <<homeserver, headers, method, exc>>
           ELSE Raise(i, e, "homeserver_for_domain")
    /\ UNCHANGED <<pc, destinations, net, debug, result, printed, versions,
                   sinks>>

\* variant: the Host header is set before the query's answer is read
SRVReturn_header_first(i) ==
    /\ pc = "gather"
    /\ tpc[i] = "SRV"
    /\ LET res == net[i].srv
           e == srv_raises(res)
       IN  IF e = NoExc
           THEN Resolved(i, srv_homeserver(res), srv_headers(destinations[i]), "SRV")
           ELSE IF except_SRV(e)
           THEN Resolved(i, fallback_homeserver(destinations[i]),
                         srv_headers(destinations[i]), "fallback")
           ELSE Raise(i, e, "homeserver_for_domain")
    /\ UNCHANGED <<pc, destinations, net, debug, result, printed, versions,
                   sinks>>

\* the SRV query completes (lines 49-57)
SRVReturn(i) ==
    /\ pc = "gather"
    /\ tpc[i] = "SRV"
    /\ LET res == net[i].srv
           e == srv_raises(res)
       IN  IF e = NoExc
           THEN Resolved(i, srv_homeserver(res), srv_headers(destinations[i]), "SRV")
           ELSE IF except_SRV(e)
           THEN Resolved(i, fallback_homeserver(destinations[i]), headers[i],
                         "fallback")
           ELSE Raise(i, e, "homeserver_for_domain")
    /\ UNCHANGED <<pc, destinations, net, debug, result, printed, versions,
                   sinks>>

\* variant: in debug mode the version is printed but not returned
VersionReturn_debug_no_return(i) ==
    /\ pc = "gather"
    /\ tpc[i] = "version"
    /\ LET res == net[i].ver
           e == version_raises(res)
       IN  IF e = NoExc
           THEN /\ result' = [result EXCEPT
                                ![i] = IF debug THEN None
                                       ELSE PyStr(version_string(res))]
                /\ printed' = [printed EXCEPT
                                 ![i] = IF debug
                                        THEN [line |-> "has",
                                              domain |-> destinations[i],
                                              homeserver |-> homeserver[i],
                                              method |-> method[i],
                                              text |-> version_string(res)]
                                        ELSE @]
                /\ tpc' = [tpc EXCEPT ![i] = "done"]
                /\ UNCHANGED exc
           ELSE IF except_version(e)
           THEN /\ result' = [result EXCEPT ![i] = None]
                /\ printed' = [printed EXCEPT
                                 ![i] = IF debug
                                        THEN [line |-> "failed",
                                              domain |-> destinations[i],
                                              homeserver |-> homeserver[i],
                                              method |-> method[i],
                                              text |-> e]
                                        ELSE @]
                /\ tpc' = [tpc EXCEPT ![i] = "done"]
                /\ UNCHANGED exc
           ELSE /\ tpc' = [tpc EXCEPT ![i] = "raised"]
                /\ exc' = [exc EXCEPT
                             ![i] = [type |-> e, in |-> "version_for_homeserver"]]
                /\ UNCHANGED <<result, printed>>
    /\ UNCHANGED <<pc, destinations, net, debug, homeserver, headers, method,
                   requests, versions, sinks>>

\* variant: when the version fetch fails after the well-known tier, the
\* SRV tier is tried
VersionReturn_next_tier(i) ==
    /\ pc = "gather"
    /\ tpc[i] = "version"
    /\ LET res == net[i].ver
           e == version_raises(res)
       IN  IF e = NoExc
           THEN /\ result' = [result EXCEPT ![i] = PyStr(version_string(res))]
                /\ printed' = [printed EXCEPT
                                 ![i] = IF debug
                                        THEN [line |-> "has",
                                              domain |-> destinations[i],
                                              homeserver |-> homeserver[i],
                                              method |-> method[i],
                                              text |-> version_string(res)]
                                        ELSE @]
                /\ tpc' = [tpc EXCEPT ![i] = "done"]
                /\ UNCHANGED exc
           ELSE IF except_version(e) /\ method[i] = "well-known"
           THEN /\ tpc' = [tpc EXCEPT ![i] = "SRV"]
                /\ UNCHANGED <<result, printed, exc>>
           ELSE IF except_version(e)
           THEN /\ result' = [result EXCEPT ![i] = None]
                /\ printed' = [printed EXCEPT
                                 ![i] = IF debug
                                        THEN [line |-> "failed",
                                              domain |-> destinations[i],
                                              homeserver |-> homeserver[i],
                                              method |-> method[i],
                                              text |-> e]
                                        ELSE @]
                /\ tpc' = [tpc EXCEPT ![i] = "done"]
                /\ UNCHANGED exc
           ELSE /\ tpc' = [tpc EXCEPT ![i] = "raised"]
                /\ exc' = [exc EXCEPT
                             ![i] = [type |-> e, in |-> "version_for_homeserver"]]
                /\ UNCHANGED <<result, printed>>
    /\ UNCHANGED <<pc, destinations, net, debug, homeserver, headers, method,
                   requests, versions, sinks>>

\* the version fetch completes (lines 61-70)
VersionReturn(i) ==
    /\ pc = "gather"
    /\ tpc[i] = "version"
    /\ LET res == net[i].ver
           e == version_raises(res)
       IN  IF e = NoExc
           THEN /\ result' = [result EXCEPT ![i] = PyStr(version_string(res))]
                /\ printed' = [printed EXCEPT
                                 ![i] = IF debug
                                        THEN [line |-> "has",
                                              domain |-> destinations[i],
                                              homeserver |-> homeserver[i],
                                              method |-> method[i],
                                              text |-> version_string(res)]
                                        ELSE @]
                /\ tpc' = [tpc EXCEPT ![i] = "done"]
                /\ UNCHANGED exc
           ELSE IF except_version(e)
           THEN /\ result' = [result EXCEPT ![i] = None]
                /\ printed' = [printed EXCEPT
                                 ![i] = IF debug
                                        THEN [line |-> "failed",
                                              domain |-> destinations[i],
                                              homeserver |-> homeserver[i],
                                              method |-> method[i],
                                              text |-> e]
                                        ELSE @]
                /\ tpc' = [tpc EXCEPT ![i] = "done"]
                /\ UNCHANGED exc
           ELSE /\ tpc' = [tpc EXCEPT ![i] = "raised"]
                /\ exc' = [exc EXCEPT
                             ![i] = [type |-> e, in |-> "version_for_homeserver"]]
                /\ UNCHANGED <<result, printed>>
    /\ UNCHANGED <<pc, destinations, net, debug, homeserver, headers, method,
                   requests, versions, sinks>>

\* variant: the wait ends with the first task that returns
GatherReady_first_completed ==
    \/ \E i \in Tasks : tpc[i] \in {"raised", "done"}
    \/ Tasks = {}

\* variant: the wait ends on a timer, whatever the tasks have done
GatherReady_timeout == \A i \in Tasks : tpc[i] # "created"

\* variant: the wait needs at least one task
GatherReady_nonempty ==
    \/ \E i \in Tasks : tpc[i] = "raised"
    \/ Tasks # {} /\ \A i \in Tasks : tpc[i] = "done"

\* await asyncio.gather(*tasks) returns once every task has returned, or
\* re-raises as soon as one task has raised
GatherReady ==
    \/ \E i \in Tasks : tpc[i] = "raised"
    \/ \A i \in Tasks : tpc[i] = "done"

\* asyncio.gather: the results in the order of the tasks
gather == [i \in 1..Len(tpc) |-> result[i]]

\* lines 156-162
Fold ==
    /\ pc = "gather"
    /\ GatherReady
    /\ IF \E i \in Tasks : tpc[i] = "raised"
       THEN /\ pc' = "gather_raised"
            /\ UNCHANGED versions
       ELSE /\ pc' = "folded"
            /\ versions' = remove_None(most_common(Counter(gather)))
    /\ UNCHANGED <<destinations, net, debug, tpc, homeserver, headers, method,
                   result, exc, requests, printed, sinks>>

\* graphite(versions): socket.error is caught and a message printed
graphite(out, connected) ==
    IF connected
    THEN [out EXCEPT !.carbon = [tuples |-> graphite_tuples(versions)]]
    ELSE [out EXCEPT !.message = TRUE]

\* lines 164-174: the debug print, the two report files, the carbon send;
\* an open() that fails raises out of main
Output ==
    /\ pc = "folded"
    /\ \E enable_report \in BOOLEAN, enable_graphite \in BOOLEAN,
          opened \in 0..2, connected \in BOOLEAN :
          LET report   == format_report(versions)
              out1     == IF debug THEN [sinks EXCEPT !.stdout = report]
                          ELSE sinks
              out2     == IF enable_report /\ opened >= 1
                          THEN [out1 EXCEPT !.reportfile = report] ELSE out1
              out3     == IF enable_report /\ opened >= 2
                          THEN [out2 EXCEPT !.wwwfile = report] ELSE out2
          IN  IF enable_report /\ opened < 2
              THEN /\ pc' = "output_raised"
                   /\ sinks' = out3
              ELSE /\ pc' = "exit"
                   /\ sinks' = IF enable_graphite THEN graphite(out3, connected)
                                ELSE out3
    /\ UNCHANGED <<destinations, net, debug, tpc, homeserver, headers, method,
                   result, exc, requests, printed, versions>>

Next ==
    \/ Dispatch
    \/ \E i \in Tasks : Start(i)
    \/ \E i \in Tasks : WellKnownReturn(i)
    \/ \E i \in Tasks : SRVReturn(i)
    \/ \E i \in Tasks : VersionReturn(i)
    \/ Fold
    \/ Output

Spec == Init /\ [][Next]_vars

\* The event loop runs every task that is ready, and every I/O operation
\* is taken to answer, fail or time out (sock_connect=5, sock_read=5):
\* each task's next step, and main's return from gather, happen once they
\* stay enabled.
TaskStep(i) ==
    /\ i \in Tasks
    /\ Start(i) \/ WellKnownReturn(i) \/ SRVReturn(i) \/ VersionReturn(i)

Fairness ==
    /\ \A i \in 1..MaxFairDomains : WF_vars(TaskStep(i))
    /\ WF_vars(Fold)

FairInit == InitOne \/ InitUpTo(MaxFairDomains)

FairSpec == FairInit /\ [][Next]_vars /\ Fairness

(***************************************************************************)
(* Properties                                                              *)
(***************************************************************************)
\* the task's homeserver_for_domain has returned
HasResolved(i) == tpc[i] \in {"version", "done"}

\* the well-known document was fetched and holds a string m.server
WellKnownSucceeds(i) ==
    /\ net[i].wk.status = "ok"
    /\ net[i].wk.body = "object"
    /\ net[i].wk.has
    /\ net[i].wk.type = "str"

\* the SRV query returned at least one record
SRVSucceeds(i) == net[i].srv.status = "ok" /\ Len(net[i].srv.records) >= 1

\* the decimal text of the ports the SRV answers carry
PortText(p) == CASE p = 8448 -> <<"8", "4", "4", "8">>
                 [] p = 443 -> <<"4", "4", "3">>

LastRequest(i) == requests[i][Len(requests[i])]

\* main is past the fold: the versions table exists
TableBuilt == pc \in {"folded", "exit", "output_raised"}

\* C1: homeserver_for_domain is total: whatever the well-known fetch and
\* the SRV query answered, no exception leaves homeserver_for_domain, and
\* every task whose resolution has ended holds an authority, a header that
\* is None or {'Host': domain}, and one of the three methods.
C1_ResolveTotal ==
    \A i \in Tasks :
        /\ exc[i].in # "homeserver_for_domain"
        /\ HasResolved(i) =>
              /\ homeserver[i] # <<>>
              /\ headers[i] \in {None, [Host |-> destinations[i]]}
              /\ method[i] \in {"well-known", "SRV", "fallback"}

\* a malformed m.server (a number) and an SRV timeout, resolved all the same
C1_Witness ==
    \E i \in Tasks :
        /\ HasResolved(i)
        /\ net[i].wk.status = "ok" /\ net[i].wk.has /\ net[i].wk.type = "num"
        /\ net[i].srv.status = "TimeoutError"
        /\ method[i] = "fallback"

\* C2: when the well-known fetch succeeds with the string m.server value V,
\* the method is well-known, there is no header, and the authority is V
\* with ':8448' appended if V holds no ':' and exactly V if it holds one.
C2_WellKnownAuthority ==
    \A i \in Tasks :
        (tpc[i] \in {"SRV", "version", "done", "raised"} /\ WellKnownSucceeds(i)) =>
            LET V == net[i].wk.value IN
            /\ method[i] = "well-known"
            /\ headers[i] = None
            /\ (\A k \in 1..Len(V) : V[k] # ":") =>
                  homeserver[i] = V \o <<":", "8", "4", "4", "8">>
            /\ (\E k \in 1..Len(V) : V[k] = ":") => homeserver[i] = V

\* an m.server with a port is taken as it is
C2_Witness ==
    \E i \in Tasks :
        /\ tpc[i] = "done"
        /\ WellKnownSucceeds(i)
        /\ \E k \in 1..Len(net[i].wk.value) : net[i].wk.value[k] = ":"
        /\ homeserver[i] = net[i].wk.value

\* C3: when the well-known tier fails and the SRV query returns at least
\* one record, the authority is host:port of the first record, the header
\* is {'Host': domain} and the method is SRV.
C3_SRVAuthority ==
    \A i \in Tasks :
        (HasResolved(i) /\ ~WellKnownSucceeds(i) /\ SRVSucceeds(i)) =>
            LET first == net[i].srv.records[1] IN
            /\ homeserver[i] = first.host \o <<":">> \o PortText(first.port)
            /\ headers[i] = [Host |-> destinations[i]]
            /\ method[i] = "SRV"

\* an SRV answer of two records: the first one is used
C3_Witness ==
    \E i \in Tasks :
        /\ tpc[i] = "done"
        /\ ~WellKnownSucceeds(i)
        /\ Len(net[i].srv.records) = 2
        /\ homeserver[i] = <<"f", "e", "d", ":", "4", "4", "3">>
        /\ method[i] = "SRV"

\* C4: when the well-known tier and the SRV tier both fail (an SRV answer
\* without records included), the authority is domain:8448, the header is
\* None and the method is fallback.
C4_FallbackAuthority ==
    \A i \in Tasks :
        (HasResolved(i) /\ ~WellKnownSucceeds(i) /\ ~SRVSucceeds(i)) =>
            /\ homeserver[i] = destinations[i] \o <<":", "8", "4", "4", "8">>
            /\ headers[i] = None
            /\ method[i] = "fallback"

\* a well-known body that is not JSON and an SRV answer without records
C4_Witness ==
    \E i \in Tasks :
        /\ tpc[i] = "done"
        /\ net[i].wk.status = "JSONDecodeError"
        /\ net[i].srv.status = "ok" /\ net[i].srv.records = <<>>
        /\ method[i] = "fallback"

\* C5: the Host header is present only when the method is SRV, in every
\* resolution result and in every request a task has issued.
C5_HeaderOnlyForSRV ==
    \A i \in Tasks :
        /\ headers[i] # None => method[i] = "SRV"
        /\ \A k \in 1..Len(requests[i]) :
              requests[i][k].headers # None =>
                  /\ method[i] = "SRV"
                  /\ requests[i][k].path = "/_matrix/federation/v1/version"

\* one version request with the header (SRV) next to one without it
\* (fallback, after the well-known tier failed)
C5_Witness ==
    \E i, j \in Tasks :
        /\ method[i] = "SRV" /\ tpc[i] = "done"
        /\ LastRequest(i).headers = [Host |-> destinations[i]]
        /\ method[j] = "fallback" /\ tpc[j] = "done"
        /\ LastRequest(j).headers = None

\* the version response lacks what version_for_homeserver reads
VersionFetchFails(i) ==
    \/ net[i].ver.status # "ok"
    \/ net[i].ver.body # "object"
    \/ net[i].ver.server # "object"
    \/ net[i].ver.name = None
    \/ net[i].ver.version = None

\* the version response is complete and its version holds a token
VersionFetchSucceeds(i) ==
    /\ ~VersionFetchFails(i)
    /\ "str" \in DOMAIN net[i].ver.version
    /\ \E k \in 1..Len(net[i].ver.version.str) :
          net[i].ver.version.str[k] \notin Whitespace

\* C6: version_for_domain never raises: no task ends with an exception,
\* gather never re-raises one into main, a finished task's result is None
\* or a version string, a failed version fetch gives None and a good one
\* gives a string whatever the other domains did.
C6_ProbeNeverRaises ==
    /\ pc # "gather_raised"
    /\ \A i \in Tasks :
          /\ tpc[i] # "raised"
          /\ exc[i] = NoError
          /\ tpc[i] = "done" =>
                /\ result[i] = None \/ DOMAIN result[i] = {"str"}
                /\ VersionFetchFails(i) => result[i] = None
                /\ VersionFetchSucceeds(i) => result[i] # None

\* the table is built although one domain's version fetch timed out
C6_Witness ==
    /\ pc = "folded"
    /\ \E i, j \in Tasks :
          /\ net[i].ver.status = "TimeoutError" /\ result[i] = None
          /\ result[j] # None

RECURSIVE SumValues(_, _)
SumValues(items, k) == IF k = 0 THEN 0 ELSE items[k][2] + SumValues(items, k - 1)

Reports == {sinks.stdout, sinks.reportfile, sinks.wwwfile} \ {None}

\* C7: the table has no entry for None, each entry counts the domains whose
\* probe returned that version, the counts sum to at most the number of
\* domains, to exactly that number only when every domain gave a version,
\* and every report's total is that sum.
C7_TableCounts ==
    TableBuilt =>
        LET sum == SumValues(versions, Len(versions)) IN
        /\ \A k \in 1..Len(versions) :
              /\ versions[k][1] # None
              /\ versions[k][2] =
                    Cardinality({i \in Tasks : result[i] = versions[k][1]})
        /\ sum <= Len(destinations)
        /\ (sum = Len(destinations)) <=> (\A i \in Tasks : result[i] # None)
        /\ \A r \in Reports : r.total = sum

\* three domains, one of them without a version: the report says 2 online
C7_Witness ==
    /\ pc = "exit"
    /\ Len(destinations) = 3
    /\ \E i \in Tasks : result[i] = None
    /\ sinks.stdout # None
    /\ sinks.stdout.total = 2

\* C8: the table and every output exist only after every task has
\* returned, and every returned version is in the table.
C8_JoinBarrier ==
    (TableBuilt \/ versions # <<>> \/ sinks # NoOutput) =>
        /\ \A i \in Tasks : tpc[i] = "done"
        /\ \A i \in Tasks : result[i] # None => result[i] \in Keys(versions)

\* the table of a run over several domains
C8_Witness ==
    /\ pc = "folded"
    /\ Cardinality(Tasks) >= 2
    /\ Len(versions) >= 1

\* what the stubbed version response of task i makes of its probe
StubbedResult(i) ==
    IF version_raises(net[i].ver) = NoExc
    THEN PyStr(version_string(net[i].ver))
    ELSE None

\* C9: the table is a function of the destinations and the stubbed
\* responses alone: whatever the order in which the tasks took their steps
\* and returned, it is the fold of the stubbed results in destination order.
C9_Deterministic ==
    TableBuilt =>
        versions = remove_None(most_common(Counter(
                       [i \in 1..Len(destinations) |-> StubbedResult(i)])))

\* two versions with the same count: their order in the table is fixed
C9_Witness ==
    /\ pc = "folded"
    /\ Len(versions) = 2
    /\ versions[1][2] = versions[2][2]

\* C10: the table iterates in descending order of count, and so do the
\* tuples sent to carbon.
C10_DescendingCounts ==
    TableBuilt =>
        /\ \A k \in 1..(Len(versions) - 1) : versions[k][2] >= versions[k + 1][2]
        /\ sinks.carbon # None =>
              \A k \in 1..(Len(sinks.carbon.tuples) - 1) :
                  sinks.carbon.tuples[k][2] >= sinks.carbon.tuples[k + 1][2]

\* the version the first domain returned comes second, behind a version
\* two later domains returned
C10_Witness ==
    /\ pc = "exit"
    /\ Len(versions) = 2
    /\ versions[1][2] = 2 /\ versions[2][2] = 1
    /\ result[1] = versions[2][1]
    /\ sinks.carbon # None

\* the position of the first domain whose probe returned this version
FirstSeen(key) ==
    CHOOSE i \in Tasks : result[i] = key /\ \A j \in Tasks : result[j] = key => i <= j

\* C11 (as claimed): the table iterates in the order in which each version
\* is first seen in the sequence of results, not by count.
C11_FirstSeenOrder ==
    TableBuilt =>
        \A k, l \in 1..Len(versions) :
            k < l => FirstSeen(versions[k][1]) < FirstSeen(versions[l][1])

\* C11 (amended): the table iterates by descending count, and versions of
\* the same count in the order in which they are first seen in the results.
C11_CountThenFirstSeen ==
    TableBuilt =>
        \A k, l \in 1..Len(versions) :
            k < l =>
                \/ versions[k][2] > versions[l][2]
                \/ /\ versions[k][2] = versions[l][2]
                   /\ FirstSeen(versions[k][1]) < FirstSeen(versions[l][1])

\* a version first seen later stands first because two domains returned it
C11_Witness ==
    /\ pc = "folded"
    /\ Len(versions) = 2
    /\ versions[1][2] > versions[2][2]
    /\ FirstSeen(versions[1][1]) > FirstSeen(versions[2][1])

\* the version response has a server object with a string name and a
\* string version
HasNameAndVersion(i) ==
    /\ net[i].ver.status = "ok"
    /\ net[i].ver.body = "object"
    /\ net[i].ver.server = "object"
    /\ DOMAIN net[i].ver.name = {"str"}
    /\ DOMAIN net[i].ver.version = {"str"}

\* V[a..b] is the first whitespace-delimited token of V
IsFirstToken(V, a, b) ==
    /\ 1 <= a /\ a <= b /\ b <= Len(V)
    /\ \A k \in 1..(a - 1) : V[k] \in Whitespace
    /\ \A k \in a..b : V[k] \notin Whitespace
    /\ b < Len(V) => V[b + 1] \in Whitespace

\* C12: with a server name N and a version V that holds a token, the probe
\* returns N, '/', and the first whitespace-delimited token of V; with V
\* empty or all whitespace it returns None.
C12_Normalization ==
    \A i \in Tasks :
        (tpc[i] = "done" /\ HasNameAndVersion(i)) =>
            LET N == net[i].ver.name.str
                V == net[i].ver.version.str
            IN  IF \E k \in 1..Len(V) : V[k] \notin Whitespace
                THEN \E a, b \in 1..Len(V) :
                        /\ IsFirstToken(V, a, b)
                        /\ result[i] = PyStr(N \o <<"/">> \o SubSeq(V, a, b))
                ELSE result[i] = None

\* '1.6.1 (b)' from Synapse gives 'Synapse/1.6.1'
C12_Witness ==
    \E i \in Tasks :
        /\ tpc[i] = "done"
        /\ net[i].ver.version = PyStr(<<"1", ".", "6", ".", "1", " ", "(", "b", ")">>)
        /\ result[i] = PyStr(<<"S", "y", "n", "a", "p", "s", "e", "/",
                               "1", ".", "6", ".", "1">>)

\* C13 (as claimed): no sink failure aborts the run: main never ends with
\* the exception of a report file that could not be written, and after a
\* failed send to carbon the run still ends normally.
C13_SinkFailureNotFatal ==
    /\ pc # "output_raised"
    /\ sinks.message => pc = "exit"

\* C14: when the destinations cannot be obtained the run aborts and no
\* task exists and no request has been issued, before or after.
C14_NoProbeOnSetupFailure ==
    pc \in {"main", "aborted"} =>
        /\ Tasks = {}
        /\ \A i \in DOMAIN requests : requests[i] = <<>>

\* the run aborted although the source would have held destinations
C14_Witness ==
    /\ pc = "aborted"
    /\ Len(destinations) >= 1
    /\ requests = <<>>

IsSRVRequest(r) == r.op = "SRV"

IsVersionRequest(r) ==
    r.op = "GET" /\ r.path = "/_matrix/federation/v1/version"

IsWellKnownRequest(r) ==
    r.op = "GET" /\ r.path = "/.well-known/matrix/server"

\* the number of requests of task i that satisfy Is
CountRequests(i, Is(_)) ==
    Cardinality({k \in 1..Len(requests[i]) : Is(requests[i][k])})

\* C16: the SRV query is issued only after the well-known fetch of that
\* domain has failed, the fallback is used only after both have failed,
\* and when the well-known fetch succeeds no SRV query is issued at all,
\* even if an SRV record exists.
C16_TierOrder ==
    \A i \in Tasks :
        /\ \A k \in 1..Len(requests[i]) :
              IsSRVRequest(requests[i][k]) =>
                  /\ k = 2
                  /\ IsWellKnownRequest(requests[i][1])
                  /\ tpc[i] # "well-known"
                  /\ ~WellKnownSucceeds(i)
        /\ method[i] = "fallback" =>
              /\ ~WellKnownSucceeds(i)
              /\ ~SRVSucceeds(i)
              /\ CountRequests(i, IsSRVRequest) = 1
        /\ WellKnownSucceeds(i) => CountRequests(i, IsSRVRequest) = 0

\* a domain with a good well-known document and an SRV record: the record
\* is never asked for
C16_Witness ==
    \E i \in Tasks :
        /\ tpc[i] = "done"
        /\ WellKnownSucceeds(i)
        /\ SRVSucceeds(i)
        /\ Len(requests[i]) = 2
        /\ method[i] = "well-known"

\* C17: a task issues at most one well-known request, one SRV query and
\* one version request, and a task that has returned exactly one
\* well-known and one version request; the version request is issued when
\* the resolution has returned and carries the resolved authority and
\* header.
C17_OneRequestEach ==
    \A i \in Tasks :
        /\ CountRequests(i, IsWellKnownRequest) <= 1
        /\ CountRequests(i, IsSRVRequest) <= 1
        /\ CountRequests(i, IsVersionRequest) <= 1
        /\ tpc[i] = "done" =>
              /\ CountRequests(i, IsWellKnownRequest) = 1
              /\ CountRequests(i, IsVersionRequest) = 1
        /\ \A k \in 1..Len(requests[i]) :
              IsVersionRequest(requests[i][k]) =>
                  /\ HasResolved(i)
                  /\ k > 1
                  /\ requests[i][k].authority = homeserver[i]
                  /\ requests[i][k].headers = headers[i]

\* three requests for a domain resolved by SRV, the last one to the SRV
\* target with the Host header
C17_Witness ==
    /\ TableBuilt
    /\ \E i \in Tasks :
          /\ Len(requests[i]) = 3
          /\ method[i] = "SRV"
          /\ LastRequest(i).authority = homeserver[i]
          /\ LastRequest(i).authority # destinations[i]
          /\ LastRequest(i).headers = [Host |-> destinations[i]]

\* the step task i takes next is enabled
CanStep(i) ==
    /\ tpc[i] = "created" => ENABLED Start(i)
    /\ tpc[i] = "well-known" => ENABLED WellKnownReturn(i)
    /\ tpc[i] = "SRV" => ENABLED SRVReturn(i)
    /\ tpc[i] = "version" => ENABLED VersionReturn(i)

C20_NoLowerTierAfterFetch ==
    \A i \in Tasks :
        /\ \A k \in 1..Len(requests[i]) :
              IsVersionRequest(requests[i][k]) =>
                  /\ k = Len(requests[i])
                  /\ HasResolved(i)
        /\ (tpc[i] = "done" /\ version_raises(net[i].ver) # NoExc) =>
              /\ result[i] = None
              /\ method[i] = "well-known" =>
                    /\ Len(requests[i]) = 2
                    /\ LastRequest(i).authority = well_known_homeserver(net[i].wk)
              /\ method[i] = "SRV" =>
                    /\ Len(requests[i]) = 3
                    /\ LastRequest(i).authority = srv_homeserver(net[i].srv)

\* well-known succeeded, the version fetch timed out, an SRV record exists:
\* the result is None after two requests
C20_Witness ==
    \E i \in Tasks :
        /\ tpc[i] = "done"
        /\ method[i] = "well-known"
        /\ net[i].ver.status = "TimeoutError"
        /\ SRVSucceeds(i)
        /\ result[i] = None
        /\ Len(requests[i]) = 2

\* the requests the stubbed responses of task i lead to
StubbedRequests(i) ==
    LET D == destinations[i] IN
    IF WellKnownSucceeds(i)
    THEN << WellKnownRequest(D),
            VersionRequest(well_known_homeserver(net[i].wk), None) >>
    ELSE IF SRVSucceeds(i)
    THEN << WellKnownRequest(D), SRVRequest(D),
            VersionRequest(srv_homeserver(net[i].srv), [Host |-> D]) >>
    ELSE << WellKnownRequest(D), SRVRequest(D),
            VersionRequest(D \o <<":", "8", "4", "4", "8">>, None) >>

C19_Termination ==
    /\ [](\A i \in Tasks : Len(requests[i]) <= 3)
    /\ (pc = "gather") ~> (TableBuilt /\ \A i \in Tasks : tpc[i] = "done")

\* the table of a run in which every task needed its three operations
C19_Witness ==
    /\ pc = "folded"
    /\ Cardinality(Tasks) >= 2
    /\ \A i \in Tasks : Len(requests[i]) = 3

====
